---- MODULE Spec2Model ----
(***************************************************************************)
(* Model of the library return-date reminder script (src/main.js).         *)
(*                                                                         *)
(* The script is one callback, checkReturnDatesAndNotify, run by an        *)
(* external trigger against a spreadsheet (three named sheets) and an      *)
(* HTTP endpoint.  Text is modelled as a sequence of character codes, a    *)
(* spreadsheet cell as a tagged value [t, v] whose payload v is always a   *)
(* sequence of integers: a string's character codes, a number's value, a   *)
(* date's <<year, month, day>>.                                            *)
(***************************************************************************)
EXTENDS Integers, Sequences, FiniteSets, TLC

VARIABLES
    ss,       \* the spreadsheet: the settings, loan-records and error-log sheets
    posts,    \* the HTTP requests issued so far, in order
    today,    \* the calendar date new Date() yields
    runs,     \* number of trigger invocations so far
    last,     \* what the last invocation did (history of one run)
    fSheet,   \* due-date filter applied alone: the loan-records sheet
    fTarget,  \* ... the target date string
    fThrows,  \* ... whether reading the sheet throws
    fOut,     \* ... the outcome of the call
    dDate,    \* date utilities applied alone: the date argument
    dDays,    \* ... the number of days
    dOut      \* ... the outcome of the call

vars == <<ss, posts, today, runs, last, fSheet, fTarget, fThrows, fOut, dDate, dDays, dOut>>

-----------------------------------------------------------------------------
(* Bounds of the model *)

MaxRuns == 2          \* trigger invocations explored
MaxRows == 2          \* loan rows under the header, trigger runs
MaxFilterRows == 3    \* loan rows under the header, filter applied alone
MaxDays == 40         \* largest n of addDays(d, n) applied alone
FirstYear == 2023     \* years of the dates addDays is applied to
LastYear == 2024

-----------------------------------------------------------------------------
(* Cell values and text *)

Str(s) == [t |-> "str", v |-> s]
Num(n) == [t |-> "num", v |-> <<n>>]
DateVal(y, m, d) == [t |-> "date", v |-> <<y, m, d>>]
Undefined == [t |-> "undef", v |-> <<>>]

\* the calendar fields of a date value; getMonth counts from zero
getFullYear(date) == date.v[1]
getMonth(date) == date.v[2] - 1
getDate(date) == date.v[3]

\* character codes
NL == 10
Slash == 47
Digit(n) == 48 + n

\* JavaScript truthiness, as the ! of the configuration check applies it
Truthy(c) ==
    CASE c.t = "str" -> c.v # <<>>
      [] c.t = "num" -> c.v # <<0>>
      [] c.t = "date" -> TRUE
      [] OTHER -> FALSE

\* a === b for the values that occur: two primitives of one type and value
\* (a Date object is identical only to itself, never to another value)
StrictEq(a, b) == a.t \in {"str", "num"} /\ a = b

\* String(n) for a non-negative integer
RECURSIVE Decimal(_)
Decimal(n) == IF n < 10 THEN <<Digit(n)>> ELSE Decimal(n \div 10) \o <<Digit(n % 10)>>

\* s.padStart(2, '0')
PadStart2(s) == IF Len(s) >= 2 THEN s ELSE IF Len(s) = 1 THEN <<Digit(0)>> \o s ELSE <<Digit(0), Digit(0)>>

-----------------------------------------------------------------------------
(* Date utilities *)

IsLeap(y) == (y % 4 = 0 /\ y % 100 # 0) \/ y % 400 = 0

DaysInMonth(y, m) ==
    IF m = 2 THEN (IF IsLeap(y) THEN 29 ELSE 28)
    ELSE IF m \in {4, 6, 9, 11} THEN 30 ELSE 31

\* Date.prototype.setDate: a day of the month outside the month rolls into the
\* following (or preceding) months and years
RECURSIVE setDate(_, _, _)
setDate(y, m, d) ==
    IF d > DaysInMonth(y, m)
    THEN (IF m = 12 THEN setDate(y + 1, 1, d - DaysInMonth(y, m))
                    ELSE setDate(y, m + 1, d - DaysInMonth(y, m)))
    ELSE IF d < 1
    THEN (IF m = 1 THEN setDate(y - 1, 12, d + DaysInMonth(y - 1, 12))
                   ELSE setDate(y, m - 1, d + DaysInMonth(y, m - 1)))
    ELSE DateVal(y, m, d)

\* addDays forgetting the month rollover
addDaysNoRollover(date, days) ==
    [ret |-> DateVal(getFullYear(date), (getMonth(date) + 1), getDate(date) + days), arg |-> date]

\* addDays(date, days): ret is the returned date, arg the argument object
\* as the call leaves it
addDays(date, days) ==
    LET newDate == setDate(getFullYear(date), (getMonth(date) + 1), getDate(date) + days)
    IN  [ret |-> newDate, arg |-> date]

\* formatDate turning a non-date into the empty string
formatDateBlankNonDate(date) ==
    IF date.t # "date" THEN Str(<<>>)
    ELSE Str(Decimal(getFullYear(date)) \o <<Slash>> \o PadStart2(Decimal(getMonth(date) + 1))
             \o <<Slash>> \o PadStart2(Decimal(getDate(date))))

formatDate(date) ==
    IF date.t # "date" THEN date
    ELSE Str(Decimal(getFullYear(date)) \o <<Slash>> \o PadStart2(Decimal(getMonth(date) + 1))
             \o <<Slash>> \o PadStart2(Decimal(getDate(date))))

-----------------------------------------------------------------------------
(* The spreadsheet *)

\* sheet names (lines 1-3) select a field of the spreadsheet record
NoSheet == [exists |-> FALSE, rows |-> <<>>]
Sheet(rows) == [exists |-> TRUE, rows |-> rows]

\* texts of the error messages
MsgConfigInvalid == "config-invalid"
MsgSettingsMissing == "settings-sheet-missing"
MsgGetConfigError == "getConfig-error"
MsgDataMissing == "data-sheet-missing"
MsgGetBooksError == "getBooksDueOnDate-error"
MsgSendArgs == "sendMessageToLINE-arguments"
MsgSendError == "sendMessageToLINE-error"
MsgOrchestratorError == "checkReturnDatesAndNotify-error"

\* new Date().toLocaleString(): the timestamp of a log row, kept as the
\* calendar fields it prints
toLocaleString(now) == now.v

\* logError overwriting the log instead of appending to it
logErrorOverwrite(s, now, errorMessage) ==
    [s EXCEPT !.errlog = Sheet(<<<<toLocaleString(now), errorMessage>>>>)]

\* logError(errorMessage) on spreadsheet s: the spreadsheet afterwards
logError(s, now, errorMessage) ==
    LET sheet == IF s.errlog.exists THEN s.errlog ELSE Sheet(<<>>)
    IN  [s EXCEPT !.errlog = Sheet(Append(sheet.rows, <<toLocaleString(now), errorMessage>>))]

-----------------------------------------------------------------------------
(* Configuration Reader *)

KeyNames == {"URL", "ACCESS_TOKEN", "TO_USER_ID"}

\* the configuration object: null, or the value under each key (undefined
\* for a key never assigned)
NullConfig == [null |-> TRUE, props |-> [k \in KeyNames |-> Undefined]]
EmptyConfig == [null |-> FALSE, props |-> [k \in KeyNames |-> Undefined]]

\* sheet.getLastRow(): every modelled row holds content
getLastRow(sheet) == Len(sheet.rows)

\* data.forEach(([key, value]) => { config[key] = value; })
RECURSIVE forEachAssign(_, _)
forEachAssign(config, data) ==
    IF data = <<>> THEN config
    ELSE forEachAssign([config EXCEPT !.props[data[1][1]] = data[1][2]], Tail(data))

\* getConfig letting its failure escape instead of catching it
getConfigRethrow(s, now, readThrows) ==
    IF ~s.settings.exists
    THEN [s |-> logError(s, now, MsgSettingsMissing), ret |-> NullConfig,
          threw |-> FALSE, raised |-> FALSE]
    ELSE IF readThrows \/ getLastRow(s.settings) < 1
    THEN [s |-> s, ret |-> NullConfig, threw |-> TRUE, raised |-> TRUE]
    ELSE [s |-> s, ret |-> forEachAssign(EmptyConfig, s.settings.rows),
          threw |-> FALSE, raised |-> FALSE]

\* getConfig not logging that the settings sheet is missing
getConfigQuiet(s, now, readThrows) ==
    IF ~s.settings.exists
    THEN [s |-> s, ret |-> NullConfig, threw |-> FALSE, raised |-> FALSE]
    ELSE IF readThrows \/ getLastRow(s.settings) < 1
    THEN [s |-> s, ret |-> NullConfig, threw |-> TRUE, raised |-> FALSE]
    ELSE [s |-> s, ret |-> forEachAssign(EmptyConfig, s.settings.rows),
          threw |-> FALSE, raised |-> FALSE]

\* getConfig(): s is the spreadsheet afterwards, ret the returned value, threw
\* whether the read threw inside the try, raised whether an exception left
\* the function.  getRange(1, 1, 0, 2) on a sheet without rows throws.
getConfig(s, now, readThrows) ==
    IF ~s.settings.exists
    THEN [s |-> logError(s, now, MsgSettingsMissing), ret |-> NullConfig,
          threw |-> FALSE, raised |-> FALSE]
    ELSE IF readThrows \/ getLastRow(s.settings) < 1
    THEN [s |-> logError(s, now, MsgGetConfigError), ret |-> NullConfig,
          threw |-> TRUE, raised |-> FALSE]
    ELSE [s |-> s, ret |-> forEachAssign(EmptyConfig, s.settings.rows),
          threw |-> FALSE, raised |-> FALSE]

-----------------------------------------------------------------------------
(* Due-Date Filter *)

\* row[i] of the script (index from zero); undefined beyond the row's end
At(row, i) == IF i + 1 <= Len(row) THEN row[i + 1] ELSE Undefined

\* sheet.getDataRange().getValues(): an empty sheet yields one blank cell
getValues(sheet) == IF sheet.rows = <<>> THEN << <<Str(<<>>)>> >> ELSE sheet.rows

\* data.slice(1)
slice1(data) == IF data = <<>> THEN <<>> ELSE Tail(data)

\* the filter callback (lines 70-75)
rowIsDue(row, targetDate) ==
    LET dueDate == At(row, 6)
        dueDateString == formatDate(dueDate)
    IN  StrictEq(dueDateString, targetDate)

RECURSIVE filterDue(_, _)
filterDue(rows, targetDate) ==
    IF rows = <<>> THEN <<>>
    ELSE (IF rowIsDue(rows[1], targetDate) THEN <<rows[1]>> ELSE <<>>)
         \o filterDue(Tail(rows), targetDate)

\* .map(row => row[3])
mapTitle(rows) == [i \in 1..Len(rows) |-> At(rows[i], 3)]

\* the filter without the slice(1) that skips the header
dueBooksOfWithHeader(data, targetDate) == mapTitle(filterDue(data, targetDate))

\* lines 69-76
dueBooksOf(data, targetDate) == mapTitle(filterDue(slice1(data), targetDate))

\* getBooksDueOnDate(targetDate): the fields are those of getConfig
getBooksDueOnDate(s, now, targetDate, readThrows) ==
    IF ~s.data.exists
    THEN [s |-> logError(s, now, MsgDataMissing), ret |-> <<>>,
          threw |-> FALSE, raised |-> FALSE]
    ELSE IF readThrows
    THEN [s |-> logError(s, now, MsgGetBooksError), ret |-> <<>>,
          threw |-> TRUE, raised |-> FALSE]
    ELSE [s |-> s, ret |-> dueBooksOf(getValues(s.data), targetDate),
          threw |-> FALSE, raised |-> FALSE]

-----------------------------------------------------------------------------
(* Notifier *)

\* string coercion of a cell value in a join or a concatenation
ToStr(c) == IF c.t = "num" THEN Decimal(c.v[1]) ELSE c.v

\* "Bearer "
BearerPrefix == <<66, 101, 97, 114, 101, 114, 32>>

\* the request of lines 123-138; failed tells whether the fetch threw
Request(config, message, fetchThrows) ==
    [url |-> config.props["URL"],
     method |-> "post",
     contentType |-> "application/json; charset=UTF-8",
     authorization |-> BearerPrefix \o ToStr(config.props["ACCESS_TOKEN"]),
     payload |-> [to |-> config.props["TO_USER_ID"],
                  messages |-> << [type |-> "text", text |-> message] >>],
     failed |-> fetchThrows]

\* sendMessageToLINE retrying once after a failed fetch
sendMessageToLINERetry(s, net, now, config, message, fetchThrows) ==
    IF config.null \/ message = <<>>
    THEN [s |-> logError(s, now, MsgSendArgs), net |-> net,
          threw |-> FALSE, raised |-> FALSE]
    ELSE IF fetchThrows
    THEN [s |-> logError(s, now, MsgSendError),
          net |-> net \o <<Request(config, message, TRUE), Request(config, message, TRUE)>>,
          threw |-> TRUE, raised |-> FALSE]
    ELSE [s |-> s, net |-> Append(net, Request(config, message, FALSE)),
          threw |-> FALSE, raised |-> FALSE]

\* sendMessageToLINE without its try/catch
sendMessageToLINERethrow(s, net, now, config, message, fetchThrows) ==
    IF config.null \/ message = <<>>
    THEN [s |-> logError(s, now, MsgSendArgs), net |-> net,
          threw |-> FALSE, raised |-> FALSE]
    ELSE [s |-> s, net |-> Append(net, Request(config, message, fetchThrows)),
          threw |-> fetchThrows, raised |-> fetchThrows]

\* sendMessageToLINE(config, message): net is the list of requests issued
sendMessageToLINE(s, net, now, config, message, fetchThrows) ==
    IF config.null \/ message = <<>>
    THEN [s |-> logError(s, now, MsgSendArgs), net |-> net,
          threw |-> FALSE, raised |-> FALSE]
    ELSE IF fetchThrows
    THEN [s |-> logError(s, now, MsgSendError),
          net |-> Append(net, Request(config, message, TRUE)),
          threw |-> TRUE, raised |-> FALSE]
    ELSE [s |-> s, net |-> Append(net, Request(config, message, FALSE)),
          threw |-> FALSE, raised |-> FALSE]

-----------------------------------------------------------------------------
(* Orchestrator *)

\* the fixed header line and the fixed URL line of the message, each kept as
\* one code standing for its text
HeaderLine == <<9001>>
UrlLine == <<9002>>

\* returnBooks.join('\n')
RECURSIVE join(_, _)
join(items, sep) ==
    IF items = <<>> THEN <<>>
    ELSE IF Len(items) = 1 THEN ToStr(items[1])
    ELSE ToStr(items[1]) \o sep \o join(Tail(items), sep)

\* the message without the blank line before the URL
messageOfNoBlank(returnBooks) ==
    HeaderLine \o <<NL>> \o join(returnBooks, <<NL>>) \o <<NL>> \o UrlLine

\* the message template of line 22
messageOf(returnBooks) ==
    HeaderLine \o <<NL>> \o join(returnBooks, <<NL>>) \o <<NL, NL>> \o UrlLine

\* the check of line 12 forgetting the access token
configIncompleteNoToken(config) ==
    \/ config.null
    \/ ~Truthy(config.props["URL"])
    \/ ~Truthy(config.props["TO_USER_ID"])

\* the check of line 12
configIncomplete(config) ==
    \/ config.null
    \/ ~Truthy(config.props["URL"])
    \/ ~Truthy(config.props["ACCESS_TOKEN"])
    \/ ~Truthy(config.props["TO_USER_ID"])

\* the record of one invocation, before anything happened: pre and preNet
\* are the spreadsheet and the requests when it starts, s and net when it
\* ends, sendPreLog the error-log rows when sendMessageToLINE is called
NoRun(s, net) ==
    [ran |-> FALSE, pre |-> s, preNet |-> net, s |-> s, net |-> net,
     config |-> NullConfig, cfgThrew |-> FALSE, aborted |-> FALSE,
     dataCalled |-> FALSE, dataThrew |-> FALSE, target |-> Undefined,
     returnBooks |-> <<>>, sendCalled |-> FALSE, message |-> <<>>,
     sendPreLog |-> <<>>, fetchThrew |-> FALSE, caught |-> FALSE]

\* what the history variable keeps of a run's record: all but the final
\* spreadsheet and requests, which the state holds
Kept(o) ==
    [ran |-> o.ran, pre |-> o.pre, preNet |-> o.preNet,
     config |-> o.config, cfgThrew |-> o.cfgThrew, aborted |-> o.aborted,
     dataCalled |-> o.dataCalled, dataThrew |-> o.dataThrew, target |-> o.target,
     returnBooks |-> o.returnBooks, sendCalled |-> o.sendCalled, message |-> o.message,
     sendPreLog |-> o.sendPreLog, fetchThrew |-> o.fetchThrew, caught |-> o.caught]

\* the catch block of lines 25-27
catchBlock(o, now) ==
    [o EXCEPT !.s = logError(o.s, now, MsgOrchestratorError), !.caught = TRUE]

\* checkReturnDatesAndNotify(): f tells which external calls throw in this
\* invocation (reading the settings sheet, reading the loan-records sheet,
\* the fetch)
checkReturnDatesAndNotify(s, net, now, f) ==
    LET c == getConfig(s, now, f.settings)
        o1 == [NoRun(s, net) EXCEPT !.ran = TRUE, !.s = c.s, !.config = c.ret,
                                    !.cfgThrew = c.threw]
    IN  IF c.raised THEN catchBlock(o1, now)
        ELSE IF configIncomplete(c.ret)
        THEN [o1 EXCEPT !.s = logError(c.s, now, MsgConfigInvalid), !.aborted = TRUE]
        ELSE
          LET tomorrow == formatDate(addDays(now, 1).ret)
              b == getBooksDueOnDate(c.s, now, tomorrow, f.data)
              o2 == [o1 EXCEPT !.s = b.s, !.dataCalled = TRUE,
                               !.dataThrew = b.threw, !.target = tomorrow,
                               !.returnBooks = b.ret]
          IN  IF b.raised THEN catchBlock(o2, now)
              ELSE IF Len(b.ret) > 0
              THEN
                LET message == messageOf(b.ret)
                    m == sendMessageToLINE(b.s, net, now, c.ret, message, f.fetch)
                    o3 == [o2 EXCEPT !.s = m.s, !.net = m.net, !.sendCalled = TRUE,
                                     !.message = message, !.sendPreLog = b.s.errlog.rows,
                                     !.fetchThrew = m.threw]
                IN  IF m.raised THEN catchBlock(o3, now) ELSE o3
              ELSE o2

-----------------------------------------------------------------------------
(* The states explored *)

SeqsUpTo(S, n) == UNION {[1..k -> S] : k \in 0..n}

Blank == Str(<<>>)
Row(title, due) == <<Blank, Blank, Blank, title, Blank, Blank, due>>

TitleA == Str(<<65>>)
TitleB == Str(<<66>>)
Mar1 == DateVal(2024, 3, 1)
Jan1 == DateVal(2024, 1, 1)
\* the texts "2024/03/01" and "2024/01/01"
TextMar1 == Str(<<50, 48, 50, 52, 47, 48, 51, 47, 48, 49>>)
TextJan1 == Str(<<50, 48, 50, 52, 47, 48, 49, 47, 48, 49>>)

\* a value for each required key
Good(k) == IF k = "URL" THEN Str(<<85>>) ELSE IF k = "ACCESS_TOKEN" THEN Str(<<84>>) ELSE Str(<<73>>)

\* per key: no row, an empty cell, the number 0, or a value
CellChoices == {"absent", "empty", "zero", "good"}
KeyOrder == <<"URL", "ACCESS_TOKEN", "TO_USER_ID">>
SettingsRow(k, choice) ==
    <<k, IF choice = "empty" THEN Blank ELSE IF choice = "zero" THEN Num(0) ELSE Good(k)>>
SettingsTable(c) ==
    LET all == [i \in 1..3 |-> <<KeyOrder[i], c[KeyOrder[i]]>>]
        kept == SelectSeq(all, LAMBDA p : p[2] # "absent")
    IN  [i \in 1..Len(kept) |-> SettingsRow(kept[i][1], kept[i][2])]
AllGood == SettingsTable([k \in KeyNames |-> "good"])
SettingsSheets ==
    {NoSheet} \cup {Sheet(SettingsTable(c)) : c \in [KeyNames -> CellChoices]}
    \cup {Sheet(Append(AllGood, <<"TO_USER_ID", Blank>>)),
          Sheet(<<<<"URL", Blank>>>> \o AllGood)}

HeaderRows == {Row(Str(<<84>>), Str(<<68>>)), Row(Str(<<84>>), Mar1)}
DataSheets ==
    {NoSheet, Sheet(<<>>)}
    \cup {Sheet(<<Row(Str(<<84>>), Str(<<68>>))>> \o r) :
            r \in SeqsUpTo({Row(title, due) : title \in {TitleA, TitleB}, due \in {Mar1, Jan1}}, MaxRows)}
FilterSheets ==
    {NoSheet, Sheet(<<>>)}
    \cup {Sheet(<<h>> \o r) : h \in HeaderRows,
            r \in SeqsUpTo({Row(title, due) : title \in {TitleA, TitleB},
                              due \in {Mar1, Jan1, TextMar1, Blank, Num(45352)}}, MaxFilterRows)}

Dates == {DateVal(y, m, d) : y \in FirstYear..LastYear, m \in 1..12, d \in 1..31}
ValidDates == {x \in Dates : getDate(x) <= DaysInMonth(getFullYear(x), getMonth(x) + 1)}

NoFilterOut == [done |-> FALSE, ret |-> <<>>, log |-> <<>>, threw |-> FALSE, raised |-> FALSE]
NoDateOut == [done |-> FALSE, given |-> Jan1, ret |-> Jan1, arg |-> Jan1]

IdleMain ==
    /\ ss = [settings |-> NoSheet, data |-> NoSheet, errlog |-> NoSheet]
    /\ posts = <<>>
    /\ today = Jan1
    /\ runs = 0
    /\ last = Kept(NoRun(ss, posts))
IdleFilter == fSheet = NoSheet /\ fTarget = TextMar1 /\ fThrows = FALSE /\ fOut = NoFilterOut
IdleDates == dDate = Jan1 /\ dDays = 0 /\ dOut = NoDateOut

-----------------------------------------------------------------------------
(* The trigger: invocations of checkReturnDatesAndNotify *)

Init ==
    /\ ss \in {[settings |-> a, data |-> b, errlog |-> NoSheet] :
                 a \in SettingsSheets, b \in DataSheets}
    /\ posts = <<>>
    /\ today \in {DateVal(2024, 2, 29), DateVal(2023, 12, 31)}
    /\ runs = 0
    /\ last = Kept(NoRun(ss, posts))
    /\ IdleFilter
    /\ IdleDates

Trigger ==
    /\ runs < MaxRuns
    /\ \E f \in [settings : BOOLEAN, data : BOOLEAN, fetch : BOOLEAN] :
         LET o == checkReturnDatesAndNotify(ss, posts, today, f)
         IN  /\ ss' = o.s
             /\ posts' = o.net
             /\ last' = Kept(o)
    /\ runs' = runs + 1
    /\ UNCHANGED <<today, fSheet, fTarget, fThrows, fOut, dDate, dDays, dOut>>

Next == Trigger

Spec == Init /\ [][Next]_vars

-----------------------------------------------------------------------------
(* The due-date filter applied alone *)

FilterInit ==
    /\ IdleMain
    /\ IdleDates
    /\ fSheet \in FilterSheets
    /\ fTarget \in {TextMar1, TextJan1}
    /\ fThrows \in BOOLEAN
    /\ fOut = NoFilterOut

ApplyFilter ==
    /\ ~fOut.done
    /\ LET r == getBooksDueOnDate([settings |-> NoSheet, data |-> fSheet, errlog |-> NoSheet],
                                  today, fTarget, fThrows)
       IN  fOut' = [done |-> TRUE, ret |-> r.ret, log |-> r.s.errlog.rows,
                        threw |-> r.threw, raised |-> r.raised]
    /\ UNCHANGED <<ss, posts, today, runs, last, fSheet, fTarget, fThrows, dDate, dDays, dOut>>

FilterNext == ApplyFilter

SpecFilter == FilterInit /\ [][FilterNext]_vars

-----------------------------------------------------------------------------
(* The date utilities applied alone *)

DatesInit ==
    /\ IdleMain
    /\ IdleFilter
    /\ dDate \in ValidDates
    /\ dDays \in 0..MaxDays
    /\ dOut = NoDateOut

ApplyAddDays ==
    /\ ~dOut.done
    /\ LET r == addDays(dDate, dDays)
       IN  /\ dOut' = [done |-> TRUE, given |-> dDate, ret |-> r.ret, arg |-> r.arg]
           /\ dDate' = r.arg
    /\ UNCHANGED <<ss, posts, today, runs, last, fSheet, fTarget, fThrows, fOut, dDays>>

DatesNext == ApplyAddDays

SpecDates == DatesInit /\ [][DatesNext]_vars

-----------------------------------------------------------------------------
(* Vocabulary of the properties *)

LogRows(s) == s.errlog.rows
LogLen(s) == Len(LogRows(s))
\* the error-log rows the last invocation o added, and their messages
NewRows(o) == SubSeq(LogRows(ss), LogLen(o.pre) + 1, LogLen(ss))
NewMessages(o) == [i \in 1..Len(NewRows(o)) |-> NewRows(o)[i][2]]
\* the requests the last invocation o issued
NewPosts(o) == SubSeq(posts, Len(o.preNet) + 1, Len(posts))
Delivered(o) == \E i \in 1..Len(NewPosts(o)) : ~NewPosts(o)[i].failed

\* days since 1970-01-01 of a calendar date, by the closed formula
DayNumber(date) ==
    LET m == date.v[2]
        y == IF m <= 2 THEN date.v[1] - 1 ELSE date.v[1]
        era == y \div 400
        yoe == y - era * 400
        mp == IF m > 2 THEN m - 3 ELSE m + 9
        doy == (153 * mp + 2) \div 5 + date.v[3] - 1
        doe == yoe * 365 + yoe \div 4 - yoe \div 100 + doy
    IN  era * 146097 + doe - 719468

IsCalendarDate(date) ==
    /\ date.t = "date"
    /\ date.v[2] \in 1..12
    /\ date.v[3] \in 1..DaysInMonth(date.v[1], date.v[2])

\* the value the settings table gives key k: that of the last row naming k
TableValue(sheet, k) ==
    LET idx == {i \in 1..Len(sheet.rows) : sheet.rows[i][1] = k}
    IN  IF idx = {} THEN Undefined
        ELSE sheet.rows[CHOOSE i \in idx : \A j \in idx : j <= i][2]
\* the table gives all three required keys a value that is neither empty
\* nor the number 0
HasAllKeysTruthy(sheet) ==
    sheet.exists /\ \A k \in KeyNames : TableValue(sheet, k) \notin {Undefined, Blank, Num(0)}

\* the rows under the header whose due-date cell is the day after now
RowsDueTomorrow(sheet, now) ==
    {i \in 2..Len(sheet.rows) :
        /\ sheet.rows[i][7].t = "date"
        /\ DayNumber(sheet.rows[i][7]) = DayNumber(now) + 1}

\* the titles (column 4) of the rows from the i-th on whose formatted
\* column 7 equals the target, in row order
RECURSIVE TitlesFrom(_, _, _)
TitlesFrom(rows, i, target) ==
    IF i > Len(rows) THEN <<>>
    ELSE (IF formatDate(rows[i][7]) = target THEN <<rows[i][4]>> ELSE <<>>)
         \o TitlesFrom(rows, i + 1, target)
ExpectedTitles(sheet, target) ==
    IF ~sheet.exists THEN <<>> ELSE TitlesFrom(sheet.rows, 2, target)

\* the lines of a text: its pieces between newlines
RECURSIVE Lines(_)
Lines(text) ==
    IF \A i \in 1..Len(text) : text[i] # NL THEN <<text>>
    ELSE LET k == CHOOSE i \in 1..Len(text) : text[i] = NL /\ \A j \in 1..(i - 1) : text[j] # NL
         IN  <<SubSeq(text, 1, k - 1)>> \o Lines(SubSeq(text, k + 1, Len(text)))

-----------------------------------------------------------------------------
(* Properties of the trigger runs (Spec) *)

\* the configuration is null, or one of the three keys is absent or empty
NullOrKeyMissing(config) ==
    config.null \/ \E k \in KeyNames : config.props[k] \in {Undefined, Blank}

\* C1: when getConfig returns null or a configuration in which URL,
\* ACCESS_TOKEN or TO_USER_ID is absent or empty, the run appends the
\* configuration-error row to the error log, issues no HTTP POST, does not
\* read the loan-records table, and stops.
C1_ConfigErrorStops ==
    (last.ran /\ NullOrKeyMissing(last.config)) =>
        /\ Len(NewMessages(last)) >= 1
        /\ NewMessages(last)[Len(NewMessages(last))] = MsgConfigInvalid
        /\ NewPosts(last) = <<>>
        /\ posts = last.preNet
        /\ ~last.dataCalled
        /\ ~last.sendCalled
        /\ last.aborted

\* a run on a settings table that lacks only the ACCESS_TOKEN key, with a
\* loan row due tomorrow
C1_Witness ==
    /\ last.ran
    /\ last.pre.settings.exists
    /\ TableValue(last.pre.settings, "ACCESS_TOKEN") = Undefined
    /\ Truthy(TableValue(last.pre.settings, "URL"))
    /\ Truthy(TableValue(last.pre.settings, "TO_USER_ID"))
    /\ RowsDueTomorrow(last.pre.data, today) # {}
    /\ NewMessages(last) = <<MsgConfigInvalid>>
    /\ posts = <<>>

\* C3, as stated: a run issues exactly one HTTP POST when the configuration
\* has all three required keys and at least one loan row is due tomorrow,
\* and none otherwise.
C3_AsStated ==
    last.ran =>
        Len(NewPosts(last)) =
            IF ~NullOrKeyMissing(last.config) /\ RowsDueTomorrow(last.pre.data, today) # {}
            THEN 1 ELSE 0

\* C3, amended: a run issues exactly one HTTP POST when the settings table
\* is read without error and gives each of the three keys a value the
\* script counts as present (not empty, not the number 0), the loan-records
\* table is read without error, and at least one loan row is due tomorrow;
\* it issues none otherwise, and never more than one.
C3_OnePostIffDue ==
    last.ran =>
        /\ Len(NewPosts(last)) =
             IF /\ HasAllKeysTruthy(last.pre.settings)
                /\ ~last.cfgThrew
                /\ last.pre.data.exists
                /\ ~last.dataThrew
                /\ RowsDueTomorrow(last.pre.data, today) # {}
             THEN 1 ELSE 0
        /\ Len(NewPosts(last)) <= 1
        /\ SubSeq(posts, 1, Len(last.preNet)) = last.preNet

\* a run with two rows due tomorrow that issued its single POST
C3_Witness ==
    /\ last.ran
    /\ Cardinality(RowsDueTomorrow(last.pre.data, today)) >= 2
    /\ Len(NewPosts(last)) = 1
    /\ ~NewPosts(last)[1].failed

\* C4: when the HTTP call inside sendMessageToLINE throws, the call adds
\* exactly one error-log row, the exception does not reach the caller, and
\* no second POST is attempted.
C4_TransportErrorLoggedOnce ==
    (last.sendCalled /\ last.fetchThrew) =>
        /\ LogLen(ss) = Len(last.sendPreLog) + 1
        /\ LogRows(ss)[LogLen(ss)][2] = MsgSendError
        /\ SubSeq(LogRows(ss), 1, Len(last.sendPreLog)) = last.sendPreLog
        /\ ~last.caught
        /\ Len(NewPosts(last)) = 1
        /\ NewPosts(last)[1].failed

\* a run whose fetch threw
C4_Witness ==
    /\ last.sendCalled
    /\ last.fetchThrew
    /\ NewMessages(last) = <<MsgSendError>>
    /\ Len(posts) >= 1

\* the failure kinds of a broken run
SettingsMissing(o) == ~o.pre.settings.exists
KeyAbsentOrEmpty(o) == ~o.config.null /\ NullOrKeyMissing(o.config)
DataMissing(o) == o.dataCalled /\ ~o.pre.data.exists
TransportError(o) == o.sendCalled /\ o.fetchThrew
Broken(o) == SettingsMissing(o) \/ KeyAbsentOrEmpty(o) \/ DataMissing(o) \/ TransportError(o)

\* C5, as stated: every broken run (settings table missing, required key
\* absent or empty, loan-records table missing, transport error) delivers no
\* notification and adds exactly one row to the error log.
C5_AsStated ==
    (last.ran /\ Broken(last)) =>
        ~Delivered(last) /\ Len(NewRows(last)) = 1

\* C5, amended: every broken run delivers no notification; it adds exactly
\* one error-log row when a required key is absent or empty in the
\* configuration getConfig returns, when the loan-records table is missing,
\* or on a transport error, and exactly two rows when the settings table is
\* missing (getConfig logs the missing sheet, then the entry point logs the
\* configuration error).
C5_BrokenRunLogs ==
    (last.ran /\ Broken(last)) =>
        /\ ~Delivered(last)
        /\ KeyAbsentOrEmpty(last) => NewMessages(last) = <<MsgConfigInvalid>>
        /\ DataMissing(last) => NewMessages(last) = <<MsgDataMissing>>
        /\ TransportError(last) => NewMessages(last) = <<MsgSendError>>
        /\ SettingsMissing(last) => NewMessages(last) = <<MsgSettingsMissing, MsgConfigInvalid>>

\* a run without the settings sheet: two rows
C5_Witness ==
    /\ last.ran
    /\ SettingsMissing(last)
    /\ Len(NewRows(last)) = 2
    /\ posts = <<>>

\* C6: no exception leaves checkReturnDatesAndNotify: whichever of the
\* settings read, the loan-records read and the HTTP call fail, the failing
\* component catches its own failure, logs it and returns its fallback (null,
\* the empty list), so that the entry point's own catch block is never
\* entered and the run returns normally.
C6_FailuresContained ==
    last.ran =>
        /\ ~last.caught
        /\ last.cfgThrew =>
             /\ last.config = NullConfig
             /\ NewMessages(last) = <<MsgGetConfigError, MsgConfigInvalid>>
        /\ last.dataThrew =>
             /\ last.returnBooks = <<>>
             /\ NewMessages(last) = <<MsgGetBooksError>>
             /\ ~last.sendCalled
        /\ last.fetchThrew => NewMessages(last) = <<MsgSendError>>
        /\ \A i \in 1..Len(NewMessages(last)) : NewMessages(last)[i] # MsgOrchestratorError

\* a run in which reading the loan-records table threw although a row was due
C6_Witness ==
    /\ last.ran
    /\ last.dataThrew
    /\ RowsDueTomorrow(last.pre.data, today) # {}
    /\ ~last.caught

\* C8: no invocation changes the settings table or the loan-records table;
\* the error-log sheet, once there, stays, and its rows are only added to:
\* the rows it had remain, in place and unchanged.
C8_OnlyTheLogGrows ==
    [][/\ ss'.settings = ss.settings
       /\ ss'.data = ss.data
       /\ ss.errlog.exists => ss'.errlog.exists
       /\ LogLen(ss') >= LogLen(ss)
       /\ SubSeq(LogRows(ss'), 1, LogLen(ss)) = LogRows(ss)]_vars

\* a second run added a row to an error log that already had rows
C8_Witness ==
    /\ runs >= 2
    /\ last.pre.errlog.exists
    /\ LogLen(last.pre) >= 1
    /\ LogLen(ss) > LogLen(last.pre)

\* the due titles as texts
TitleTexts(books) == [i \in 1..Len(books) |-> ToStr(books[i])]

\* C9: the message passed to sendMessageToLINE is the fixed header line,
\* then each due title on its own line in the order getBooksDueOnDate
\* returned them, then one blank line, then the fixed URL line; the body
\* posted carries that text as the single element of messages and
\* TO_USER_ID as to.
C9_MessageLayout ==
    last.sendCalled =>
        /\ last.returnBooks # <<>>
        /\ Lines(last.message) =
             <<HeaderLine>> \o TitleTexts(last.returnBooks) \o <<<<>>, UrlLine>>
        /\ Len(NewPosts(last)) = 1
        /\ NewPosts(last)[1].payload.messages = <<[type |-> "text", text |-> last.message]>>
        /\ NewPosts(last)[1].payload.to = TableValue(last.pre.settings, "TO_USER_ID")

\* a message for two different titles
C9_Witness ==
    /\ last.sendCalled
    /\ Len(last.returnBooks) = 2
    /\ last.returnBooks[1] # last.returnBooks[2]
    /\ Len(Lines(last.message)) = 5

-----------------------------------------------------------------------------
(* Properties of the due-date filter (SpecFilter) *)

\* C2, as stated: getBooksDueOnDate returns exactly the column-4 titles of
\* the rows under the header whose formatted column 7 equals the target, in
\* row order with duplicates kept; the empty sequence when no row matches
\* or the table is missing.
C2_AsStated ==
    fOut.done => fOut.ret = ExpectedTitles(fSheet, fTarget)

\* C2, amended: as stated whenever reading the table does not throw; when
\* the read throws, the result is the empty sequence whatever the rows.
C2_FilterResult ==
    fOut.done =>
        /\ fOut.ret = IF fSheet.exists /\ fThrows THEN <<>> ELSE ExpectedTitles(fSheet, fTarget)
        /\ ~fOut.raised

\* the header's due date equals the target and is skipped; the same title is
\* returned twice, around another one
C2_Witness ==
    /\ fOut.done
    /\ fSheet.exists
    /\ Len(fSheet.rows) = 4
    /\ formatDate(fSheet.rows[1][7]) = fTarget
    /\ fOut.ret = <<TitleA, TitleB, TitleA>>

NonDateRows(sheet) == {i \in 2..Len(sheet.rows) : sheet.rows[i][7].t # "date"}

\* C7, as stated: every non-date value in column 7 is returned unchanged by
\* formatDate and its row fails to match the target, so rows without a date
\* contribute no title.
C7_AsStated ==
    fOut.done =>
        /\ \A i \in NonDateRows(fSheet) :
             /\ formatDate(fSheet.rows[i][7]) = fSheet.rows[i][7]
             /\ ~rowIsDue(fSheet.rows[i], fTarget)
        /\ NonDateRows(fSheet) = 2..Len(fSheet.rows) => fOut.ret = <<>>
        /\ ~fOut.raised

\* the titles of the rows from the i-th on whose column 7 is the target text
RECURSIVE TextMatchTitles(_, _, _)
TextMatchTitles(rows, i, target) ==
    IF i > Len(rows) THEN <<>>
    ELSE (IF rows[i][7] = target THEN <<rows[i][4]>> ELSE <<>>)
         \o TextMatchTitles(rows, i + 1, target)

\* C7, amended: every non-date value in column 7 is returned unchanged by
\* formatDate and no exception is thrown; its row matches exactly when the
\* value is a text identical to the target string (a cell holding the text
\* "2024/03/01" matches that target), so a blank cell, a number or any
\* other text never matches.
C7_NonDatePassThrough ==
    fOut.done =>
        /\ \A i \in NonDateRows(fSheet) :
             /\ formatDate(fSheet.rows[i][7]) = fSheet.rows[i][7]
             /\ rowIsDue(fSheet.rows[i], fTarget) <=> fSheet.rows[i][7] = fTarget
             /\ fSheet.rows[i][7] \in {Blank, Num(45352)} => ~rowIsDue(fSheet.rows[i], fTarget)
        /\ (NonDateRows(fSheet) = 2..Len(fSheet.rows) /\ ~fThrows) =>
             fOut.ret = TextMatchTitles(fSheet.rows, 2, fTarget)
        /\ ~fOut.raised

\* a sheet whose rows hold a blank, a number and the target as text: only
\* the last one is returned
C7_Witness ==
    /\ fOut.done
    /\ ~fThrows
    /\ fSheet.exists
    /\ Len(fSheet.rows) = 4
    /\ fSheet.rows[2][7] = Blank
    /\ fSheet.rows[3][7] = Num(45352)
    /\ fSheet.rows[4][7] = fTarget
    /\ fOut.ret = <<fSheet.rows[4][4]>>

-----------------------------------------------------------------------------
(* Properties of the date utilities (SpecDates) *)

\* C10: addDays(d, n), n >= 0, returns the calendar date exactly n days
\* after d, rolling over the ends of months and years (the last day of a
\* month + 1 is the first of the next month, December 31 + 1 is January 1 of
\* the next year), and leaves d unchanged.
C10_AddDays ==
    dOut.done =>
        /\ IsCalendarDate(dOut.ret)
        /\ DayNumber(dOut.ret) = DayNumber(dOut.given) + dDays
        /\ (dDays = 1 /\ dOut.given.v[3] = DaysInMonth(dOut.given.v[1], dOut.given.v[2])) =>
             /\ dOut.ret.v[3] = 1
             /\ dOut.ret.v[2] = (dOut.given.v[2] % 12) + 1
             /\ dOut.ret.v[1] = dOut.given.v[1] + (IF dOut.given.v[2] = 12 THEN 1 ELSE 0)
        /\ dOut.arg = dOut.given
        /\ dDate = dOut.given

\* 2023/12/31 + 1 day = 2024/01/01
C10_Witness ==
    /\ dOut.done
    /\ dOut.given = DateVal(2023, 12, 31)
    /\ dDays = 1
    /\ dOut.ret = DateVal(2024, 1, 1)

====
